---------------------------- MODULE Spec2Model ----------------------------
(***************************************************************************)
(* Model of 3_Training_Neural_Networks.ipynb: the single-step              *)
(* demonstration (the cells that build a model, run a backward pass,       *)
(* create an optimizer, run one training pass and take one update step)    *)
(* followed by the "Training for real" cell, whose loop runs               *)
(*   zero_grad -> forward -> loss -> backward -> step -> running_loss +=   *)
(* for every mini-batch of every epoch and prints one line per epoch.      *)
(*                                                                         *)
(* Tensors are tuples of integers in fixed point (floats do not exist in   *)
(* TLA+); floor division stands for floating-point rounding.  The network  *)
(* keeps the topology of the notebook (affine, ReLU, affine, ReLU, affine, *)
(* log-softmax) with the layer widths scaled down.                         *)
(***************************************************************************)
EXTENDS Integers, Sequences, FiniteSets, TLC

(***************************************************************************)
(* Sizes (scaled down from the notebook's 784, 128, 64, 10, 64, 60000, 5). *)
(***************************************************************************)
in_features == 1
hidden1 == 1
hidden2 == 1
num_classes == 2
batch_size == 2
NSamples == 3
epochs == 2
NSeeds == 2

(***************************************************************************)
(* Fixed-point units.  Activations, inputs, log-probabilities and losses   *)
(* are integers in units of 1/AS; exponentials and probabilities in units  *)
(* of 1/ES; gradients in units of 1/GS; parameters in units of 1/PS, where *)
(* PS = LrDen * GS so that lr * gradient is a whole number of parameter    *)
(* units for a learning rate of lr/LrDen.                                  *)
(***************************************************************************)
AS == 16
ES == 64
LrDen == 1000
GS == ES * AS
PS == LrDen * GS
lr == 3
lr_demo == 10

(***************************************************************************)
(* Python's None, also the value of a .grad that has not been populated:   *)
(* the empty tuple, which no tensor equals.                                *)
(***************************************************************************)
None == <<>>

(* A number variable that has not been assigned yet. *)
Unassigned == 0 - 1

Max(a, b) == IF a >= b THEN a ELSE b

(* The one element of a singleton set (evaluates its argument once). *)
Only(S) == CHOOSE v \in S : TRUE

RECURSIVE SumTo(_, _)
SumTo(f, n) == IF n = 0 THEN 0 ELSE f[n] + SumTo(f, n - 1)

RECURSIVE MaxTo(_, _)
MaxTo(f, n) == IF n = 1 THEN f[1] ELSE Max(f[n], MaxTo(f, n - 1))

(***************************************************************************)
(* exp(-n/AS) in units of 1/ES, for n >= 0, rounded to nearest:            *)
(* n = AS*q + r, exp(-q) * exp(-r/AS) with exp(-r/16) tabulated in 1/10000.*)
(* It underflows to 0 beyond ExpCut, as the float does.                    *)
(***************************************************************************)
ExpCut == 8 * AS

ExpFrac ==
    <<10000, 9394, 8825, 8290, 7788, 7316, 6873, 6456,
      6065, 5698, 5353, 5028, 4724, 4437, 4169, 3916>>

RECURSIVE ExpWhole(_)
ExpWhole(q) == IF q = 0 THEN 10000 ELSE (ExpWhole(q - 1) * 3679) \div 10000

ExpTab ==
    [n \in 0..ExpCut |->
        (((ES * ExpFrac[(n % AS) + 1]) \div 100) * ExpWhole(n \div AS) + 500000)
            \div 1000000]

ExpNeg(n) == IF n > ExpCut THEN 0 ELSE ExpTab[n]

(***************************************************************************)
(* log(s/ES) in units of 1/AS, for ES <= s: the largest n with             *)
(* e^(n/AS) <= s/ES.                                                       *)
(***************************************************************************)
LogTab ==
    [s \in ES..(ES * (num_classes + 1)) |->
        CHOOSE n \in 0..ExpCut :
            /\ ExpTab[n] * s >= ES * ES
            /\ \A m \in (n + 1)..ExpCut : ExpTab[m] * s < ES * ES]

Log(s) == LogTab[s]

(***************************************************************************)
(* Tensor helpers: a vector is a tuple of integers, a matrix a tuple of    *)
(* rows.                                                                   *)
(***************************************************************************)
Dot(w, x) == SumTo([j \in 1..Len(w) |-> w[j] * x[j]], Len(w))

Weights == {"W1", "W2", "W3"}
Biases == {"b1", "b2", "b3"}
ParamNames == Weights \cup Biases

VecAdd(a, b) == [i \in 1..Len(a) |-> a[i] + b[i]]
VecScale(c, a) == [i \in 1..Len(a) |-> c * a[i]]
VecZero(a) == [i \in 1..Len(a) |-> 0]

TAdd(name, a, b) ==
    IF name \in Weights THEN [o \in 1..Len(a) |-> VecAdd(a[o], b[o])]
    ELSE VecAdd(a, b)

TScale(name, c, a) ==
    IF name \in Weights THEN [o \in 1..Len(a) |-> VecScale(c, a[o])]
    ELSE VecScale(c, a)

ZerosLike(name, a) ==
    IF name \in Weights THEN [o \in 1..Len(a) |-> VecZero(a[o])]
    ELSE VecZero(a)

Shape(name, a) ==
    IF name \in Weights THEN <<Len(a), Len(a[1])>> ELSE <<Len(a)>>

(***************************************************************************)
(* nn.Sequential(nn.Linear, nn.ReLU, nn.Linear, nn.ReLU, nn.Linear,        *)
(* nn.LogSoftmax(dim=1)): construction draws the parameters at random      *)
(* (here: from NSeeds fixed draws of small values) and leaves every .grad  *)
(* as None.                                                                *)
(***************************************************************************)
Draw(seed, l, o, i) == (((seed * 2 + l * 3 + o * 3 + i * 5) % 7) - 3) * (PS \div 4)

Linear(seed, l, nin, nout) ==
    [weight |-> [o \in 1..nout |-> [i \in 1..nin |-> Draw(seed, l, o, i)]],
     bias |-> [o \in 1..nout |-> Draw(seed, l + 1, o, 0)]]

Sequential(seed) ==
    LET l1 == Linear(seed, 1, in_features, hidden1)
        l2 == Linear(seed, 3, hidden1, hidden2)
        l3 == Linear(seed, 5, hidden2, num_classes)
    IN  [W1 |-> l1.weight, b1 |-> l1.bias,
         W2 |-> l2.weight, b2 |-> l2.bias,
         W3 |-> l3.weight, b3 |-> l3.bias]

(* the same network with every weight and bias set to 0 *)
ZeroParams == [name \in ParamNames |-> ZerosLike(name, Sequential(1)[name])]

NoGrads == [name \in ParamNames |-> None]

(***************************************************************************)
(* trainset / trainloader: NSamples normalized inputs in [-1, 1] with      *)
(* labels in 0..num_classes-1; DataLoader(batch_size, shuffle=True) with   *)
(* the default drop_last=False, so the last batch may be short.            *)
(***************************************************************************)
SampleX(n) == [j \in 1..in_features |-> (((n * 2 + j) % 5) - 2) * (AS \div 2)]
SampleLabel(n) == n % num_classes

(* Faulty variant: the number of samples, len(trainset), as the divisor. *)
LenTrainset == NSamples

LenTrainloader == (NSamples + batch_size - 1) \div batch_size

Orders == {p \in [1..NSamples -> 1..NSamples] : \A a, b \in 1..NSamples : a # b => p[a] # p[b]}

Min(a, b) == IF a <= b THEN a ELSE b

FirstBatch(order) == SubSeq(order, 1, Min(batch_size, Len(order)))

(* Faulty variant: a loader that drops a last batch shorter than batch_size. *)
RestAfterBatchDropLast(order) ==
    IF Len(order) - Min(batch_size, Len(order)) < batch_size
    THEN <<>>
    ELSE SubSeq(order, Min(batch_size, Len(order)) + 1, Len(order))

RestAfterBatch(order) == SubSeq(order, Min(batch_size, Len(order)) + 1, Len(order))

BatchImages(idx) == [i \in 1..Len(idx) |-> SampleX(idx[i])]
BatchLabels(idx) == [i \in 1..Len(idx) |-> SampleLabel(idx[i])]

(***************************************************************************)
(* The labels as the dataset files hold them: sample number bad (none when *)
(* bad = 0) carries a class index past the last class.  criterion(output,  *)
(* labels) raises on a batch that holds such a label.                      *)
(***************************************************************************)
StoredLabels(idx, bad) ==
    [i \in 1..Len(idx) |-> IF idx[i] = bad THEN num_classes ELSE BatchLabels(idx)[i]]

ValidLabels(y) == \A i \in 1..Len(y) : y[i] \in 0..(num_classes - 1)

(***************************************************************************)
(* Forward pass, model(images).                                            *)
(***************************************************************************)
Affine(X, W, b) ==
    [i \in 1..Len(X) |-> [o \in 1..Len(W) |-> (Dot(W[o], X[i]) + b[o] * AS) \div PS]]

ReLU(Z) == [i \in 1..Len(Z) |-> [j \in 1..Len(Z[i]) |-> Max(Z[i][j], 0)]]

RowMax(row) == MaxTo(row, Len(row))

RowExp(row) == [j \in 1..Len(row) |-> ExpNeg(RowMax(row) - row[j])]

LogSoftmaxRow(row) ==
    LET e == RowExp(row)
        lse == Log(SumTo(e, Len(e)))
    IN  [j \in 1..Len(row) |-> (row[j] - RowMax(row)) - lse]

(* Faulty variant: the model without its LogSoftmax layer. *)
LogSoftmaxOmitted(Z) == Z

LogSoftmax(Z) == [i \in 1..Len(Z) |-> LogSoftmaxRow(Z[i])]

Forward(p, X) ==
    Only({ Only({ [x |-> X, z1 |-> z1, h1 |-> ReLU(z1), z2 |-> z2, h2 |-> ReLU(z2),
                   logits |-> z3, out |-> LogSoftmax(z3)] :
                  z3 \in {Affine(ReLU(z2), p.W3, p.b3)} }) :
           z1 \in {Affine(X, p.W1, p.b1)},
           z2 \in {Affine(ReLU(Affine(X, p.W1, p.b1)), p.W2, p.b2)} })

(***************************************************************************)
(* criterion(output, labels), nn.NLLLoss() with the default mean           *)
(* reduction.                                                              *)
(***************************************************************************)
NLLLoss(out, y) ==
    (0 - SumTo([i \in 1..Len(out) |-> out[i][y[i] + 1]], Len(out))) \div Len(out)

(***************************************************************************)
(* Gradient of the batch loss with respect to every parameter, as          *)
(* reverse-mode differentiation computes it from the tensors the forward   *)
(* pass retained: NLL and log-softmax give (softmax - onehot) / B at the   *)
(* logits; an affine layer y = x W^T + b gives dW = dy^T x, db = column    *)
(* sums of dy, dx = dy W; ReLU passes dy where its input was > 0.          *)
(***************************************************************************)
SoftmaxRow(row) ==
    LET e == RowExp(row)
        s == SumTo(e, Len(e))
    IN  [j \in 1..Len(row) |-> (e[j] * ES) \div s]

DLogits(logits, y) ==
    [i \in 1..Len(logits) |->
        LET sm == SoftmaxRow(logits[i])
        IN  [k \in 1..Len(sm) |->
                (sm[k] - (IF k = y[i] + 1 THEN ES ELSE 0)) \div Len(logits)]]

(* Faulty variant: x^T dy, the transpose of the weight gradient. *)
AffineGradWTransposed(dy, xin) ==
    [j \in 1..Len(xin[1]) |-> [o \in 1..Len(dy[1]) |->
        SumTo([i \in 1..Len(dy) |-> dy[i][o] * xin[i][j]], Len(dy))]]

AffineGradW(dy, xin) ==
    [o \in 1..Len(dy[1]) |-> [j \in 1..Len(xin[1]) |->
        SumTo([i \in 1..Len(dy) |-> dy[i][o] * xin[i][j]], Len(dy))]]

AffineGradB(dy) ==
    [o \in 1..Len(dy[1]) |-> SumTo([i \in 1..Len(dy) |-> dy[i][o] * AS], Len(dy))]

AffineGradX(dy, W) ==
    [i \in 1..Len(dy) |-> [j \in 1..Len(W[1]) |->
        SumTo([o \in 1..Len(W) |-> dy[i][o] * W[o][j]], Len(W)) \div PS]]

(* Faulty variant: the gradient also passes where the input was exactly 0. *)
ReLUBackwardAtZero(dy, zin) ==
    [i \in 1..Len(dy) |-> [j \in 1..Len(dy[i]) |-> IF zin[i][j] >= 0 THEN dy[i][j] ELSE 0]]

ReLUBackward(dy, zin) ==
    [i \in 1..Len(dy) |-> [j \in 1..Len(dy[i]) |-> IF zin[i][j] > 0 THEN dy[i][j] ELSE 0]]

GradientFrom(p, c, dz3, dz2, dz1) ==
    [W3 |-> AffineGradW(dz3, c.h2), b3 |-> AffineGradB(dz3),
     W2 |-> AffineGradW(dz2, c.h1), b2 |-> AffineGradB(dz2),
     W1 |-> AffineGradW(dz1, c.x), b1 |-> AffineGradB(dz1)]

Gradient(p, c, y) ==
    Only({ Only({ Only({ GradientFrom(p, c, dz3, dz2, dz1) :
                         dz1 \in {ReLUBackward(AffineGradX(dz2, p.W2), c.z1)} }) :
                  dz2 \in {ReLUBackward(AffineGradX(dz3, p.W3), c.z2)} }) :
           dz3 \in {DLogits(c.logits, y)} })

(***************************************************************************)
(* loss.backward(): every parameter's .grad becomes the gradient when it   *)
(* was None and is added to otherwise ("the gradients are accumulated").   *)
(***************************************************************************)
(* Faulty variant: backward overwrites .grad. *)
AccumulateOverwrite(name, old, g) == g

Accumulate(name, old, g) == IF old = None THEN g ELSE TAdd(name, old, g)

Backward(p, gr, c, y) ==
    Only({ [name \in ParamNames |-> Accumulate(name, gr[name], g[name])] :
           g \in {Gradient(p, c, y)} })

(***************************************************************************)
(* optimizer.zero_grad(): a .grad that is None stays None; any other is    *)
(* set to None (set_to_none=True, the default of torch 2) or filled with   *)
(* zeros (the default of torch 1).                                         *)
(***************************************************************************)
(* Faulty variant: zero_grad leaves the gradients as they are. *)
ZeroGradNoop(p, gr, toNone) == gr

ZeroGrad(p, gr, toNone) ==
    [name \in ParamNames |->
        IF gr[name] = None \/ toNone THEN None ELSE ZerosLike(name, p[name])]

(***************************************************************************)
(* optimizer.step() of optim.SGD(model.parameters(), lr): for every        *)
(* parameter with a .grad, p <- p - lr * p.grad; parameters whose .grad is *)
(* None are skipped.  The gradients are left as they are.                  *)
(***************************************************************************)
(* Faulty variant: p + lr * p.grad. *)
SGDUpdateAscent(name, w, g, rate) ==
    IF g = None THEN w ELSE TAdd(name, w, TScale(name, rate, g))

SGDUpdate(name, w, g, rate) ==
    IF g = None THEN w ELSE TAdd(name, w, TScale(name, 0 - rate, g))

(* Faulty variant: a step that updates the weights and not the biases. *)
SGDStepWeightsOnly(p, gr, rate) ==
    [name \in ParamNames |->
        IF name \in Weights THEN SGDUpdate(name, p[name], gr[name], rate) ELSE p[name]]

SGDStep(p, gr, rate) ==
    [name \in ParamNames |-> SGDUpdate(name, p[name], gr[name], rate)]

(***************************************************************************)
(* State.  pc is the position in the notebook: the cells of the           *)
(* single-step demonstration ("Cell21" .. "Cell27"), the set-up of the     *)
(* training cell ("Cell29"), the head of the epoch loop ("EpochLoop"), and *)
(* the positions inside the batch loop.                                    *)
(*   set_to_none   what zero_grad() does in the installed torch            *)
(*   bad_label     the sample whose stored label is out of range, 0 when   *)
(*                 the dataset has none (MNIST as downloaded has none)     *)
(*   params, grads model.parameters() and their .grad                      *)
(*   optimizer     None, or the SGD optimizer with its lr                  *)
(*   images, labels, output, loss   the notebook's variables of those names*)
(*   epoch, epoch_next   the loop variable and the range iterator          *)
(*   pending       the sample order the DataLoader iterator still holds    *)
(*   running_loss  the epoch's running sum                                 *)
(*   printed       the lines printed so far                                *)
(* History (read by no action):                                            *)
(*   step_ops      the operations run since the current batch was loaded   *)
(*   epoch_losses  the losses computed since the current epoch began       *)
(*   steps_in_epoch  optimizer steps taken since the current epoch began   *)
(*   pre_step      params and grads as they were when the last             *)
(*                 optimizer.step() was called                             *)
(*   counts        how often each operation of the batch loop has run      *)
(***************************************************************************)
VARIABLES pc, set_to_none, bad_label, params, grads, optimizer, images, labels, output,
          loss, epoch, epoch_next, pending, running_loss, printed,
          step_ops, epoch_losses, steps_in_epoch, pre_step, counts

vars == <<pc, set_to_none, bad_label, params, grads, optimizer, images, labels, output,
          loss, epoch, epoch_next, pending, running_loss, printed,
          step_ops, epoch_losses, steps_in_epoch, pre_step, counts>>

hist == <<step_ops, epoch_losses, steps_in_epoch, pre_step>>

NoCounts == [zero_grad |-> 0, forward |-> 0, loss |-> 0, backward |-> 0, step |-> 0]

Init ==
    /\ pc = "Cell21"
    /\ set_to_none \in BOOLEAN
    /\ bad_label = 0
    /\ params = None
    /\ grads = None
    /\ optimizer = None
    /\ images = None
    /\ labels = None
    /\ output = None
    /\ loss = Unassigned
    /\ epoch = Unassigned
    /\ epoch_next = Unassigned
    /\ pending = None
    /\ running_loss = Unassigned
    /\ printed = <<>>
    /\ step_ops = <<>>
    /\ epoch_losses = <<>>
    /\ steps_in_epoch = 0
    /\ pre_step = [valid |-> FALSE]
    /\ counts = NoCounts

(***************************************************************************)
(* The single-step demonstration.                                          *)
(***************************************************************************)
Cell21 ==
    /\ pc = "Cell21"
    /\ \E seed \in 1..NSeeds, order \in Orders :
        /\ params' = Sequential(seed)
        /\ images' = BatchImages(FirstBatch(order))
        /\ labels' = StoredLabels(FirstBatch(order), bad_label)
    /\ ValidLabels(labels')
    /\ grads' = NoGrads
    /\ output' = Forward(params', images')
    /\ loss' = NLLLoss(output'.out, labels')
    /\ pc' = "Cell22"
    /\ UNCHANGED <<set_to_none, bad_label, counts, optimizer, epoch, epoch_next, pending,
                   running_loss, printed, hist>>

(* cell-21 on a first batch that holds an out-of-range label: criterion     *)
(* raises, loss is not assigned, and the run of the notebook stops.        *)
Cell21Raises ==
    /\ pc = "Cell21"
    /\ \E seed \in 1..NSeeds, order \in Orders :
        /\ params' = Sequential(seed)
        /\ images' = BatchImages(FirstBatch(order))
        /\ labels' = StoredLabels(FirstBatch(order), bad_label)
    /\ ~ValidLabels(labels')
    /\ grads' = NoGrads
    /\ output' = Forward(params', images')
    /\ pc' = "Raised"
    /\ UNCHANGED <<set_to_none, bad_label, counts, optimizer, loss, epoch, epoch_next,
                   pending, running_loss, printed, hist>>

Cell22 ==
    /\ pc = "Cell22"
    /\ grads' = Backward(params, grads, output, labels)
    /\ pc' = "Cell24"
    /\ UNCHANGED <<set_to_none, bad_label, counts, params, optimizer, images, labels, output, loss,
                   epoch, epoch_next, pending, running_loss, printed, hist>>

Cell24 ==
    /\ pc = "Cell24"
    /\ optimizer' = [lr |-> lr_demo]
    /\ pc' = "Cell26"
    /\ UNCHANGED <<set_to_none, bad_label, counts, params, grads, images, labels, output, loss,
                   epoch, epoch_next, pending, running_loss, printed, hist>>

Cell26 ==
    /\ pc = "Cell26"
    /\ \E order \in Orders :
        /\ images' = BatchImages(FirstBatch(order))
        /\ labels' = StoredLabels(FirstBatch(order), bad_label)
    /\ ValidLabels(labels')
    /\ output' = Forward(params, images')
    /\ loss' = NLLLoss(output'.out, labels')
    /\ grads' = Backward(params, ZeroGrad(params, grads, set_to_none), output', labels')
    /\ pc' = "Cell27"
    /\ UNCHANGED <<set_to_none, bad_label, counts, params, optimizer, epoch, epoch_next, pending,
                   running_loss, printed, hist>>

(* cell-26 on a batch that holds an out-of-range label. *)
Cell26Raises ==
    /\ pc = "Cell26"
    /\ \E order \in Orders :
        /\ images' = BatchImages(FirstBatch(order))
        /\ labels' = StoredLabels(FirstBatch(order), bad_label)
    /\ ~ValidLabels(labels')
    /\ grads' = ZeroGrad(params, grads, set_to_none)
    /\ output' = Forward(params, images')
    /\ pc' = "Raised"
    /\ UNCHANGED <<set_to_none, bad_label, counts, params, optimizer, loss, epoch,
                   epoch_next, pending, running_loss, printed, hist>>

Cell27 ==
    /\ pc = "Cell27"
    /\ params' = SGDStep(params, grads, optimizer.lr)
    /\ pre_step' = [valid |-> TRUE, params |-> params, grads |-> grads]
    /\ pc' = "Cell29"
    /\ UNCHANGED <<set_to_none, bad_label, counts, grads, optimizer, images, labels, output, loss,
                   epoch, epoch_next, pending, running_loss, printed,
                   step_ops, epoch_losses, steps_in_epoch>>

(***************************************************************************)
(* "Training for real": set-up, then the epoch loop.                       *)
(***************************************************************************)
Cell29 ==
    /\ pc = "Cell29"
    /\ \E seed \in 1..NSeeds : params' = Sequential(seed)
    /\ grads' = NoGrads
    /\ optimizer' = [lr |-> lr]
    /\ epoch_next' = 0
    /\ pre_step' = [valid |-> FALSE]
    /\ pc' = "EpochLoop"
    /\ UNCHANGED <<set_to_none, bad_label, counts, images, labels, output, loss, epoch, pending,
                   running_loss, printed, step_ops, epoch_losses, steps_in_epoch>>

(* Faulty variant: one epoch too many. *)
RangeHasNextInclusive(i, n) == i <= n

RangeHasNext(i, n) == i < n

(* Faulty variant: the model is built inside the epoch loop. *)
EpochBeginRebuildsModel ==
    /\ pc = "EpochLoop"
    /\ RangeHasNext(epoch_next, epochs)
    /\ \E seed \in 1..NSeeds : params' = Sequential(seed)
    /\ epoch' = epoch_next
    /\ epoch_next' = epoch_next + 1
    /\ running_loss' = 0
    /\ \E order \in Orders : pending' = order
    /\ epoch_losses' = <<>>
    /\ steps_in_epoch' = 0
    /\ pc' = "Idle"
    /\ UNCHANGED <<set_to_none, bad_label, counts, grads, optimizer, images, labels, output,
                   loss, printed, step_ops, pre_step>>

EpochBegin ==
    /\ pc = "EpochLoop"
    /\ RangeHasNext(epoch_next, epochs)
    /\ epoch' = epoch_next
    /\ epoch_next' = epoch_next + 1
    /\ running_loss' = 0
    /\ \E order \in Orders : pending' = order
    /\ epoch_losses' = <<>>
    /\ steps_in_epoch' = 0
    /\ pc' = "Idle"
    /\ UNCHANGED <<set_to_none, bad_label, counts, params, grads, optimizer, images, labels, output,
                   loss, printed, step_ops, pre_step>>

TrainingDone ==
    /\ pc = "EpochLoop"
    /\ ~RangeHasNext(epoch_next, epochs)
    /\ pc' = "Done"
    /\ UNCHANGED <<set_to_none, bad_label, counts, params, grads, optimizer, images, labels, output,
                   loss, epoch, epoch_next, pending, running_loss, printed, hist>>

LoadBatch ==
    /\ pc = "Idle"
    /\ pending # <<>>
    /\ images' = BatchImages(FirstBatch(pending))
    /\ labels' = StoredLabels(FirstBatch(pending), bad_label)
    /\ pending' = RestAfterBatch(pending)
    /\ step_ops' = <<"load">>
    /\ pc' = "BatchLoaded"
    /\ UNCHANGED <<set_to_none, bad_label, counts, params, grads, optimizer, output, loss, epoch,
                   epoch_next, running_loss, printed, epoch_losses,
                   steps_in_epoch, pre_step>>

(* Faulty variant: the batch loop without its zero_grad() call. *)
ZeroGradStepOmitted ==
    /\ pc = "BatchLoaded"
    /\ output' = Forward(params, images)
    /\ step_ops' = Append(step_ops, "forward")
    /\ counts' = [counts EXCEPT !.forward = @ + 1]
    /\ pc' = "ForwardDone"
    /\ UNCHANGED <<set_to_none, bad_label, params, grads, optimizer, images, labels, loss,
                   epoch, epoch_next, pending, running_loss, printed,
                   epoch_losses, steps_in_epoch, pre_step>>

ZeroGradStep ==
    /\ pc = "BatchLoaded"
    /\ grads' = ZeroGrad(params, grads, set_to_none)
    /\ step_ops' = Append(step_ops, "zero_grad")
    /\ counts' = [counts EXCEPT !.zero_grad = @ + 1]
    /\ pc' = "GradsZeroed"
    /\ UNCHANGED <<set_to_none, bad_label, params, optimizer, images, labels, output, loss,
                   epoch, epoch_next, pending, running_loss, printed,
                   epoch_losses, steps_in_epoch, pre_step>>

(* Faulty variant: a forward pass whose first activation works in place on
   the input batch. *)
ForwardStepInPlace ==
    /\ pc = "GradsZeroed"
    /\ output' = Forward(params, images)
    /\ images' = ReLU(images)
    /\ step_ops' = Append(step_ops, "forward")
    /\ counts' = [counts EXCEPT !.forward = @ + 1]
    /\ pc' = "ForwardDone"
    /\ UNCHANGED <<set_to_none, bad_label, params, grads, optimizer, labels, loss,
                   epoch, epoch_next, pending, running_loss, printed,
                   epoch_losses, steps_in_epoch, pre_step>>

(* Faulty variant: a forward pass that reads the weights as they were before
   the last optimizer step. *)
ForwardStepStale ==
    /\ pc = "GradsZeroed"
    /\ output' = Forward(IF pre_step.valid THEN pre_step.params ELSE params, images)
    /\ step_ops' = Append(step_ops, "forward")
    /\ counts' = [counts EXCEPT !.forward = @ + 1]
    /\ pc' = "ForwardDone"
    /\ UNCHANGED <<set_to_none, bad_label, params, grads, optimizer, images, labels, loss,
                   epoch, epoch_next, pending, running_loss, printed,
                   epoch_losses, steps_in_epoch, pre_step>>

ForwardStep ==
    /\ pc = "GradsZeroed"
    /\ output' = Forward(params, images)
    /\ step_ops' = Append(step_ops, "forward")
    /\ counts' = [counts EXCEPT !.forward = @ + 1]
    /\ pc' = "ForwardDone"
    /\ UNCHANGED <<set_to_none, bad_label, params, grads, optimizer, images, labels, loss,
                   epoch, epoch_next, pending, running_loss, printed,
                   epoch_losses, steps_in_epoch, pre_step>>

LossStep ==
    /\ pc = "ForwardDone"
    /\ ValidLabels(labels)
    /\ loss' = NLLLoss(output.out, labels)
    /\ step_ops' = Append(step_ops, "loss")
    /\ counts' = [counts EXCEPT !.loss = @ + 1]
    /\ epoch_losses' = Append(epoch_losses, loss')
    /\ pc' = "LossComputed"
    /\ UNCHANGED <<set_to_none, bad_label, params, grads, optimizer, images, labels, output,
                   epoch, epoch_next, pending, running_loss, printed,
                   steps_in_epoch, pre_step>>

(* Faulty variant: the error of a batch is swallowed and the loop goes on
   to the next batch. *)
LossRaisesSwallowed ==
    /\ pc = "ForwardDone"
    /\ ~ValidLabels(labels)
    /\ pc' = "Idle"
    /\ UNCHANGED <<set_to_none, bad_label, counts, params, grads, optimizer, images,
                   labels, output, loss, epoch, epoch_next, pending,
                   running_loss, printed, hist>>

(* criterion(output, labels) raises on an out-of-range label; nothing in   *)
(* the cell catches it, so the cell ends there.                            *)
LossRaises ==
    /\ pc = "ForwardDone"
    /\ ~ValidLabels(labels)
    /\ pc' = "Raised"
    /\ UNCHANGED <<set_to_none, bad_label, counts, params, grads, optimizer, images,
                   labels, output, loss, epoch, epoch_next, pending,
                   running_loss, printed, hist>>

(* Faulty variant: a backward pass that also applies the update. *)
BackwardStepUpdating ==
    /\ pc = "LossComputed"
    /\ grads' = Backward(params, grads, output, labels)
    /\ params' = SGDStep(params, grads', optimizer.lr)
    /\ step_ops' = Append(step_ops, "backward")
    /\ counts' = [counts EXCEPT !.backward = @ + 1]
    /\ pc' = "BackwardDone"
    /\ UNCHANGED <<set_to_none, bad_label, optimizer, images, labels, output, loss,
                   epoch, epoch_next, pending, running_loss, printed,
                   epoch_losses, steps_in_epoch, pre_step>>

BackwardStep ==
    /\ pc = "LossComputed"
    /\ grads' = Backward(params, grads, output, labels)
    /\ step_ops' = Append(step_ops, "backward")
    /\ counts' = [counts EXCEPT !.backward = @ + 1]
    /\ pc' = "BackwardDone"
    /\ UNCHANGED <<set_to_none, bad_label, params, optimizer, images, labels, output, loss,
                   epoch, epoch_next, pending, running_loss, printed,
                   epoch_losses, steps_in_epoch, pre_step>>

(* Faulty variant: no optimizer step for a batch shorter than batch_size. *)
OptimizerStepSkipsShortBatch ==
    /\ pc = "BackwardDone"
    /\ IF Len(images) = batch_size
       THEN /\ params' = SGDStep(params, grads, optimizer.lr)
            /\ step_ops' = Append(step_ops, "step")
            /\ counts' = [counts EXCEPT !.step = @ + 1]
            /\ pre_step' = [valid |-> TRUE, params |-> params, grads |-> grads]
       ELSE UNCHANGED <<params, step_ops, counts, pre_step>>
    /\ steps_in_epoch' = steps_in_epoch + 1
    /\ pc' = "Updated"
    /\ UNCHANGED <<set_to_none, bad_label, grads, optimizer, images, labels, output, loss,
                   epoch, epoch_next, pending, running_loss, printed,
                   epoch_losses>>

OptimizerStep ==
    /\ pc = "BackwardDone"
    /\ params' = SGDStep(params, grads, optimizer.lr)
    /\ step_ops' = Append(step_ops, "step")
    /\ counts' = [counts EXCEPT !.step = @ + 1]
    /\ steps_in_epoch' = steps_in_epoch + 1
    /\ pre_step' = [valid |-> TRUE, params |-> params, grads |-> grads]
    /\ pc' = "Updated"
    /\ UNCHANGED <<set_to_none, bad_label, grads, optimizer, images, labels, output, loss,
                   epoch, epoch_next, pending, running_loss, printed,
                   epoch_losses>>

(* Faulty variant: the loss is computed again, at the updated parameters,
   when it is added to the running sum. *)
AddRunningLossRecomputed ==
    /\ pc = "Updated"
    /\ running_loss' = running_loss + NLLLoss(Forward(params, images).out, labels)
    /\ pc' = "Idle"
    /\ UNCHANGED <<set_to_none, bad_label, counts, params, grads, optimizer, images, labels,
                   output, loss, epoch, epoch_next, pending, printed, hist>>

AddRunningLoss ==
    /\ pc = "Updated"
    /\ running_loss' = running_loss + loss
    /\ pc' = "Idle"
    /\ UNCHANGED <<set_to_none, bad_label, counts, params, grads, optimizer, images, labels, output,
                   loss, epoch, epoch_next, pending, printed, hist>>

(***************************************************************************)
(* The else branch of the batch loop, print(f"Epoch {epoch+1}, Training    *)
(* loss: {running_loss/len(trainloader)}"): the quotient is kept as its    *)
(* numerator and denominator.                                              *)
(***************************************************************************)
(* Faulty variant: prints epoch instead of epoch+1. *)
ReportLineZeroIndexed(e, sum, n) == [epoch |-> e, loss_sum |-> sum, batches |-> n]

ReportLine(e, sum, n) == [epoch |-> e + 1, loss_sum |-> sum, batches |-> n]

EpochReport ==
    /\ pc = "Idle"
    /\ pending = <<>>
    /\ printed' = Append(printed, ReportLine(epoch, running_loss, LenTrainloader))
    /\ pc' = "EpochLoop"
    /\ UNCHANGED <<set_to_none, bad_label, counts, params, grads, optimizer, images, labels, output,
                   loss, epoch, epoch_next, pending, running_loss, hist>>

Next ==
    \/ Cell21
    \/ Cell22
    \/ Cell24
    \/ Cell26
    \/ Cell27
    \/ Cell29
    \/ EpochBegin
    \/ TrainingDone
    \/ LoadBatch
    \/ ZeroGradStep
    \/ ForwardStep
    \/ LossStep
    \/ BackwardStep
    \/ OptimizerStep
    \/ AddRunningLoss
    \/ EpochReport

Spec == Init /\ [][Next]_vars

(***************************************************************************)
(* The notebook runs to completion: every enabled step is eventually       *)
(* taken (single-threaded, synchronous execution).                         *)
(***************************************************************************)
FairSpec == Spec /\ WF_vars(Next)

(***************************************************************************)
(* The notebook on a dataset that may hold one out-of-range label.         *)
(***************************************************************************)
InitCorrupt ==
    /\ pc = "Cell21"
    /\ set_to_none \in BOOLEAN
    /\ bad_label \in 0..NSamples
    /\ params = None
    /\ grads = None
    /\ optimizer = None
    /\ images = None
    /\ labels = None
    /\ output = None
    /\ loss = Unassigned
    /\ epoch = Unassigned
    /\ epoch_next = Unassigned
    /\ pending = None
    /\ running_loss = Unassigned
    /\ printed = <<>>
    /\ step_ops = <<>>
    /\ epoch_losses = <<>>
    /\ steps_in_epoch = 0
    /\ pre_step = [valid |-> FALSE]
    /\ counts = NoCounts

NextCorrupt ==
    \/ Next
    \/ Cell21Raises
    \/ Cell26Raises
    \/ LossRaises

CorruptSpec == InitCorrupt /\ [][NextCorrupt]_vars

(***************************************************************************)
(* The training loop of cell-29 started from a model whose weights and     *)
(* biases are all 0.                                                       *)
(***************************************************************************)
InitZero ==
    /\ pc = "EpochLoop"
    /\ set_to_none \in BOOLEAN
    /\ bad_label = 0
    /\ params = ZeroParams
    /\ grads = NoGrads
    /\ optimizer = [lr |-> lr]
    /\ images = None
    /\ labels = None
    /\ output = None
    /\ loss = Unassigned
    /\ epoch = Unassigned
    /\ epoch_next = 0
    /\ pending = None
    /\ running_loss = Unassigned
    /\ printed = <<>>
    /\ step_ops = <<>>
    /\ epoch_losses = <<>>
    /\ steps_in_epoch = 0
    /\ pre_step = [valid |-> FALSE]
    /\ counts = NoCounts

NextLoop ==
    \/ EpochBegin
    \/ TrainingDone
    \/ LoadBatch
    \/ ZeroGradStep
    \/ ForwardStep
    \/ LossStep
    \/ BackwardStep
    \/ OptimizerStep
    \/ AddRunningLoss
    \/ EpochReport

ZeroInitSpec == InitZero /\ [][NextLoop]_vars

TypeOK ==
    /\ pc \in {"Cell21", "Cell22", "Cell24", "Cell26", "Cell27", "Cell29",
               "EpochLoop", "Idle", "BatchLoaded", "GradsZeroed", "ForwardDone",
               "LossComputed", "BackwardDone", "Updated", "Done", "Raised"}
    /\ set_to_none \in BOOLEAN
    /\ bad_label \in 0..NSamples

(***************************************************************************)
(* Helpers of the properties.                                              *)
(***************************************************************************)
BatchLoopPcs == {"Idle", "BatchLoaded", "GradsZeroed", "ForwardDone",
                 "LossComputed", "BackwardDone", "Updated"}

StepOrder == <<"load", "zero_grad", "forward", "loss", "backward", "step">>

IsZero(name, t) == t = ZerosLike(name, t)

SomeNonZero(gr) == \E name \in ParamNames : gr[name] # None /\ ~IsZero(name, gr[name])

(* the gradient of the batch loss that arrives at the output of the second *)
(* ReLU, from the tensors c of the forward pass                            *)
GradAtSecondReLU(p, c, y) == AffineGradX(DLogits(c.logits, y), p.W3)

(* the number of batches an iterator holding n samples still yields *)
BatchesLeft(n) == (n + batch_size - 1) \div batch_size

(* w - (rate/LrDen) * g, entry by entry, in parameter units *)
Descended(name, w, g, rate) ==
    IF name \in Weights
    THEN [o \in 1..Len(w) |-> [i \in 1..Len(w[o]) |-> w[o][i] - rate * g[o][i]]]
    ELSE [o \in 1..Len(w) |-> w[o] - rate * g[o]]

(* the gradient of the loss of the batch (X, y) at the parameters p *)
BatchGradient(p, X, y) == Only({Gradient(p, c, y) : c \in {Forward(p, X)}})

(***************************************************************************)
(* C1: in the training loop every mini-batch step runs load, zero_grad,    *)
(* forward, loss, backward, optimizer step in exactly this order, each     *)
(* once, and then returns to Idle; at every position of the batch loop the *)
(* operations run since the batch was loaded are exactly the prefix of     *)
(* that order that leads to the position, so an optimizer step has always  *)
(* been preceded by a reset, a forward pass, a loss and a backward pass of *)
(* the same mini-batch.                                                    *)
(***************************************************************************)
C1_StepOrder ==
    /\ pc = "BatchLoaded" => step_ops = SubSeq(StepOrder, 1, 1)
    /\ pc = "GradsZeroed" => step_ops = SubSeq(StepOrder, 1, 2)
    /\ pc = "ForwardDone" => step_ops = SubSeq(StepOrder, 1, 3)
    /\ pc = "LossComputed" => step_ops = SubSeq(StepOrder, 1, 4)
    /\ pc = "BackwardDone" => step_ops = SubSeq(StepOrder, 1, 5)
    /\ pc = "Updated" => step_ops = StepOrder
    /\ pc = "Idle" => step_ops \in {<<>>, StepOrder}
    /\ (pc = "Idle" /\ steps_in_epoch > 0) => step_ops = StepOrder

C1_Witness == pc = "Idle" /\ steps_in_epoch = LenTrainloader /\ step_ops = StepOrder

(***************************************************************************)
(* C2: the accumulators are cleared at the start of every mini-batch (to   *)
(* zeros, or to None where zero_grad sets them to None), so whenever the   *)
(* optimizer update is about to run, in the training loop and in the       *)
(* single-step demonstration, every accumulator holds exactly the gradient *)
(* of the current batch's loss at the current parameters.                  *)
(***************************************************************************)
C2_GradIsCurrentBatch ==
    /\ pc = "GradsZeroed" =>
           \A name \in ParamNames : grads[name] = None \/ IsZero(name, grads[name])
    /\ pc \in {"BackwardDone", "Cell27"} =>
           \A g \in {BatchGradient(params, images, labels)} :
               \A name \in ParamNames : grads[name] = g[name]

C2_Witness ==
    /\ pc = "BackwardDone"
    /\ pre_step.valid
    /\ SomeNonZero(pre_step.grads)
    /\ SomeNonZero(grads)

(***************************************************************************)
(* C3: the backward pass adds to the accumulators: for the batch and the   *)
(* parameters of any state, two backward passes without a reset in between *)
(* leave every accumulator at exactly twice what one backward pass leaves  *)
(* from zero accumulators.                                                 *)
(***************************************************************************)
C3_BackwardTwiceIsDouble ==
    pc # "Cell21" =>
        \A c \in {Forward(params, images)} :
            \A once \in {Backward(params,
                                  [name \in ParamNames |-> ZerosLike(name, params[name])],
                                  c, labels)} :
                \A twice \in {Backward(params, once, c, labels)} :
                    \A name \in ParamNames :
                        twice[name] = TScale(name, 2, once[name])

C3_Witness == pc = "Cell24" /\ SomeNonZero(grads)

(***************************************************************************)
(* C4: after an optimizer step with learning rate lr/LrDen every parameter *)
(* is exactly its value before the step minus the learning rate times its  *)
(* accumulator at the time of the step, and the accumulators are what they *)
(* were.                                                                   *)
(***************************************************************************)
C4_StepIsDescent ==
    (pc \in {"Updated", "Cell29"}) =>
        /\ pre_step.valid
        /\ grads = pre_step.grads
        /\ \A name \in ParamNames :
               params[name] = Descended(name, pre_step.params[name],
                                        pre_step.grads[name], optimizer.lr)

C4_Witness == pc = "Updated" /\ params # pre_step.params

(***************************************************************************)
(* C5: the optimizer step is atomic for the rest of the loop: wherever a   *)
(* gradient reset, forward pass, loss or backward pass can run after a     *)
(* step, every parameter carries the new value of that step (never some    *)
(* the new and others the old), and the gradients a step applied were all  *)
(* computed at the parameter values the step started from.                 *)
(***************************************************************************)
C5_StepAtomic ==
    /\ (pc \in BatchLoopPcs \ {"BackwardDone"} /\ pre_step.valid) =>
           \A name \in ParamNames :
               params[name] = Descended(name, pre_step.params[name],
                                        pre_step.grads[name], optimizer.lr)
    /\ pc = "Updated" =>
           \A g \in {BatchGradient(pre_step.params, images, labels)} :
               \A name \in ParamNames : pre_step.grads[name] = g[name]

C5_Witness ==
    /\ pc = "ForwardDone"
    /\ pre_step.valid
    /\ \E a, b \in ParamNames : /\ params[a] # pre_step.params[a]
                                /\ params[b] # pre_step.params[b]
                                /\ a # b

(***************************************************************************)
(* C6: only the optimizer step (and the construction of a model) changes   *)
(* the parameters: loading a batch, zero_grad, the forward pass, the loss, *)
(* the backward pass, the running-loss update and the epoch bookkeeping    *)
(* leave every parameter as it was.                                        *)
(***************************************************************************)
C6_OnlyStepWritesParams ==
    [][pc \notin {"Cell21", "Cell27", "Cell29", "BackwardDone"} => params' = params]_vars

C6_Witness ==
    /\ pc = "BackwardDone"
    /\ pre_step.valid
    /\ params # pre_step.params
    /\ \A name \in ParamNames :
           params[name] = Descended(name, pre_step.params[name],
                                    pre_step.grads[name], optimizer.lr)

(***************************************************************************)
(* C7 as stated: from model construction on, every parameter has an        *)
(* accumulator of the parameter's shape.  It does not hold: a freshly      *)
(* built model has .grad = None (the notebook prints it).                  *)
(***************************************************************************)
C7_AlwaysHasAccumulator ==
    pc # "Cell21" =>
        \A name \in ParamNames :
            /\ grads[name] # None
            /\ Shape(name, grads[name]) = Shape(name, params[name])

(***************************************************************************)
(* C7, amended: an accumulator that exists has the shape of its parameter  *)
(* at every point of the run; every parameter has one from each backward   *)
(* pass through the optimizer update that follows it; it is absent (None)  *)
(* from model construction until the first backward pass.                  *)
(***************************************************************************)
C7_AccumulatorShape ==
    /\ pc # "Cell21" =>
           \A name \in ParamNames :
               grads[name] # None =>
                   Shape(name, grads[name]) = Shape(name, params[name])
    /\ pc \in {"Cell24", "Cell26", "Cell27", "Cell29", "BackwardDone", "Updated"} =>
           \A name \in ParamNames : grads[name] # None
    /\ (pc = "Cell22" \/ (pc = "EpochLoop" /\ epoch_next = 0)) =>
           \A name \in ParamNames : grads[name] = None

C7_Witness ==
    /\ pc = "Updated"
    /\ steps_in_epoch > 1
    /\ \A name \in ParamNames :
           /\ grads[name] # None
           /\ Shape(name, grads[name]) = Shape(name, params[name])

(***************************************************************************)
(* C8: the value printed at an epoch boundary is the mean of the losses of *)
(* that epoch's batches only: the running sum is the sum of the losses     *)
(* computed since the epoch began (0 before the first batch, each loss     *)
(* added once), and the printed quotient is that sum over the number of    *)
(* batches of the epoch.                                                   *)
(***************************************************************************)
C8_EpochMean ==
    /\ pc = "Idle" =>
           /\ running_loss = SumTo(epoch_losses, Len(epoch_losses))
           /\ Len(epoch_losses) = steps_in_epoch
    /\ pc = "Updated" =>
           running_loss + loss = SumTo(epoch_losses, Len(epoch_losses))
    /\ (pc = "EpochLoop" /\ printed # <<>>) =>
           /\ printed[Len(printed)].loss_sum = SumTo(epoch_losses, Len(epoch_losses))
           /\ printed[Len(printed)].batches = Len(epoch_losses)

C8_Witness ==
    /\ pc = "EpochLoop"
    /\ Len(printed) = epochs
    /\ Len(epoch_losses) > 1
    /\ epoch_losses[1] # epoch_losses[2]
    /\ printed[Len(printed)].loss_sum > 0

(***************************************************************************)
(* C9: the training loop terminates, and it has terminated only when the   *)
(* configured number of epochs has been completed: it never stops with     *)
(* fewer and never begins an epoch beyond the configured count.            *)
(***************************************************************************)
C9_Terminates ==
    /\ <>(pc = "Done")
    /\ [](IF pc = "Done"
          THEN Len(printed) = epochs /\ epoch_next = epochs
          ELSE TRUE)
    /\ [](IF pc \in BatchLoopPcs
          THEN epoch < epochs /\ epoch_next <= epochs
          ELSE TRUE)

C9_Witness == pc = "Done" /\ Len(printed) = epochs /\ steps_in_epoch = LenTrainloader

(***************************************************************************)
(* C10: one line is printed per epoch, after the update of the epoch's     *)
(* last batch and before the first batch of the next epoch is loaded, and  *)
(* the lines are numbered 1, 2, ..., epochs in this order.                 *)
(***************************************************************************)
C10_OneLinePerEpoch ==
    /\ \A i \in 1..Len(printed) : printed[i].epoch = i
    /\ pc \in BatchLoopPcs => Len(printed) = epoch
    /\ (pc = "EpochLoop" /\ epoch_next > 0) =>
           /\ Len(printed) = epoch_next
           /\ steps_in_epoch = LenTrainloader
           /\ pending = <<>>
    /\ pc = "Done" => Len(printed) = epochs

C10_Witness ==
    /\ pc = "BatchLoaded"
    /\ epoch = epochs - 1
    /\ Len(printed) = epochs - 1
    /\ Len(printed) > 0

(***************************************************************************)
(* C11: the steps of consecutive mini-batches are wholly ordered: when the *)
(* forward pass of a mini-batch runs, the optimizer step of every earlier  *)
(* mini-batch of the epoch has completed, and the forward pass, the loss   *)
(* and the backward pass of the mini-batch see exactly the parameters the  *)
(* last optimizer step wrote: the output is the network's output at those  *)
(* parameters, and the gradients are the batch gradient at them.           *)
(***************************************************************************)
C11_StepsWhollyOrdered ==
    /\ pc \in {"GradsZeroed", "ForwardDone"} => Len(epoch_losses) = steps_in_epoch
    /\ pc \in {"LossComputed", "BackwardDone"} => Len(epoch_losses) = steps_in_epoch + 1
    /\ (pc \in {"ForwardDone", "LossComputed", "BackwardDone"} /\ pre_step.valid) =>
           \A written \in {[name \in ParamNames |->
                               Descended(name, pre_step.params[name],
                                         pre_step.grads[name], optimizer.lr)]} :
               /\ output = Forward(written, images)
               /\ pc = "LossComputed" => loss = NLLLoss(output.out, labels)
               /\ pc = "BackwardDone" =>
                      \A g \in {BatchGradient(written, images, labels)} :
                          \A name \in ParamNames : grads[name] = g[name]

C11_Witness ==
    /\ pc = "BackwardDone"
    /\ pre_step.valid
    /\ steps_in_epoch > 0
    /\ output # Forward(pre_step.params, images)

C13_ExhaustionEndsEpoch ==
    /\ pc = "Idle" => BatchesLeft(Len(pending)) + steps_in_epoch = LenTrainloader
    /\ (pc = "Idle" /\ steps_in_epoch = 0) => pending \in Orders
    /\ (pc = "Idle" /\ pending = <<>>) => Len(epoch_losses) = LenTrainloader
    /\ (pc = "EpochLoop" /\ epoch_next > 0) =>
           /\ pending = <<>>
           /\ Len(printed) = epoch_next
           /\ printed[Len(printed)].batches = steps_in_epoch
    /\ pc = "Raised" =>
           /\ ~ValidLabels(labels)
           /\ epoch # Unassigned => step_ops[Len(step_ops)] = "forward"

C13_Witness ==
    /\ pc = "Idle"
    /\ epoch = 1
    /\ steps_in_epoch = 0
    /\ pending \in Orders
    /\ Len(printed) = 1
    /\ printed[1].batches = LenTrainloader
    /\ Len(images) < batch_size

(***************************************************************************)
(* C14: the forward pass has no effect but its output: the step that runs  *)
(* model(images) leaves the input batch, the labels, every parameter and   *)
(* every gradient accumulator as they were, and the output it assigns is   *)
(* the network's output for that batch at those parameters.                *)
(***************************************************************************)
C14_ForwardOnlyWritesOutput ==
    [][pc = "GradsZeroed" =>
           /\ images' = images
           /\ labels' = labels
           /\ params' = params
           /\ grads' = grads
           /\ output' = Forward(params, images)
           /\ output'.x = images]_vars

C14_Witness ==
    /\ pc = "ForwardDone"
    /\ pre_step.valid
    /\ \A name \in ParamNames : grads[name] # None
    /\ \E i \in 1..Len(images) : \E j \in 1..Len(images[i]) : images[i][j] < 0
    /\ output = Forward(params, images)

(***************************************************************************)
(* C15: ReLU is max(x, 0) entry by entry, and its backward pass lets the   *)
(* gradient through only where the input of the forward pass was strictly  *)
(* positive.  Every hidden activation is its pre-activation where that is  *)
(* positive and 0 elsewhere; after a backward pass from cleared            *)
(* accumulators the gradient of the second hidden layer's bias is the sum, *)
(* over the samples whose pre-activation was strictly positive, of the     *)
(* gradient arriving at the ReLU output, so a sample whose pre-activation  *)
(* was 0 or negative contributes 0; and a first-layer unit that is on for  *)
(* no sample of the batch gets a zero gradient.                            *)
(***************************************************************************)
C15_ReLUGate ==
    /\ pc # "Cell21" =>
           /\ \A i \in 1..Len(output.z1) : \A j \in 1..hidden1 :
                  output.h1[i][j] = IF output.z1[i][j] > 0 THEN output.z1[i][j] ELSE 0
           /\ \A i \in 1..Len(output.z2) : \A j \in 1..hidden2 :
                  output.h2[i][j] = IF output.z2[i][j] > 0 THEN output.z2[i][j] ELSE 0
    /\ pc \in {"Cell24", "Cell27", "BackwardDone"} =>
           /\ \A dh2 \in {GradAtSecondReLU(params, output, labels)} :
                  \A j \in 1..hidden2 :
                      grads.b2[j] =
                          SumTo([i \in 1..Len(images) |->
                                    IF output.z2[i][j] > 0 THEN dh2[i][j] * AS ELSE 0],
                                Len(images))
           /\ \A j \in 1..hidden1 :
                  (\A i \in 1..Len(images) : output.z1[i][j] <= 0) =>
                      /\ grads.b1[j] = 0
                      /\ \A k \in 1..in_features : grads.W1[j][k] = 0

C15_Witness ==
    /\ pc = "BackwardDone"
    /\ \E i \in 1..Len(images) : \E j \in 1..hidden2 :
           /\ output.z2[i][j] = 0
           /\ GradAtSecondReLU(params, output, labels)[i][j] # 0
    /\ \E i \in 1..Len(images) : \E j \in 1..hidden2 : output.z2[i][j] > 0
    /\ \E i \in 1..Len(images) : \E j \in 1..hidden1 : output.z1[i][j] < 0

(***************************************************************************)
(* C16: with every weight and bias equal to 0 the forward pass gives the   *)
(* same log-probabilities for every row of the batch, whatever the rows    *)
(* hold, and within a row the same value for every class: the logarithm of *)
(* 1/num_classes, i.e. the uniform distribution over the classes.          *)
(***************************************************************************)
C16_ZeroWeightsUniform ==
    (pc \in {"ForwardDone", "LossComputed", "BackwardDone"} /\ params = ZeroParams) =>
        /\ \A i \in 1..Len(output.out) : output.out[i] = output.out[1]
        /\ \A i \in 1..Len(output.out) : \A j, k \in 1..num_classes :
               output.out[i][j] = output.out[i][k]
        /\ \A i \in 1..Len(output.out) : \A j \in 1..num_classes :
               /\ output.out[i][j] = 0 - Log(num_classes * ES)
               /\ SoftmaxRow(output.logits[i])[j] = ES \div num_classes

C16_Witness ==
    /\ pc = "ForwardDone"
    /\ params = ZeroParams
    /\ Len(images) > 1
    /\ images[1] # images[2]
    /\ output.out[1] = output.out[2]

(***************************************************************************)
(* C19: the loss that enters the running sum is the loss of the batch at   *)
(* the parameters as they were before the batch's optimizer step: after    *)
(* the step, and after the addition, loss is still the loss at the         *)
(* pre-step parameters, what the addition added to the running sum is      *)
(* exactly that value, and the sum printed at the end of the epoch is the  *)
(* sum of those pre-step losses.                                           *)
(***************************************************************************)
C19_RunningLossIsPreUpdate ==
    /\ (pc = "Updated" \/ (pc = "Idle" /\ steps_in_epoch > 0)) =>
           \A before \in {NLLLoss(Forward(pre_step.params, images).out, labels)} :
               /\ loss = before
               /\ epoch_losses[Len(epoch_losses)] = before
               /\ pc = "Idle" =>
                      running_loss =
                          SumTo(epoch_losses, Len(epoch_losses) - 1) + before
    /\ (pc = "EpochLoop" /\ epoch_next > 0) =>
           printed[Len(printed)].loss_sum =
               SumTo(epoch_losses, Len(epoch_losses) - 1)
                   + NLLLoss(Forward(pre_step.params, images).out, labels)

C19_Witness ==
    /\ pc = "Idle"
    /\ steps_in_epoch > 1
    /\ loss = NLLLoss(Forward(pre_step.params, images).out, labels)
    /\ loss # NLLLoss(Forward(params, images).out, labels)

(***************************************************************************)
(* C20: crossing an epoch boundary leaves the model and the optimizer as   *)
(* they are: printing the epoch's line, leaving the epoch loop and         *)
(* beginning an epoch (running loss reset, batch source restarted) change  *)
(* no parameter, no accumulator and no optimizer setting, and up to and    *)
(* including the forward pass of the first batch of every epoch after the  *)
(* first the parameters are exactly those that the optimizer step of the   *)
(* last batch of the epoch before wrote.                                   *)
(***************************************************************************)
C20_EpochBoundaryKeepsParams ==
    /\ [][((pc = "Idle" /\ pending = <<>>) \/ pc = "EpochLoop") =>
              /\ params' = params
              /\ grads' = grads
              /\ optimizer' = optimizer
              /\ pre_step' = pre_step]_vars
    /\ [](IF /\ pc \in {"Idle", "BatchLoaded", "GradsZeroed", "ForwardDone"}
              /\ steps_in_epoch = 0
              /\ epoch > 0
           THEN /\ pre_step.valid
                /\ optimizer = [lr |-> lr]
                /\ \A written \in {[name \in ParamNames |->
                                       Descended(name, pre_step.params[name],
                                                 pre_step.grads[name], optimizer.lr)]} :
                       /\ params = written
                       /\ pc = "ForwardDone" => output = Forward(written, images)
           ELSE TRUE)

C20_Witness ==
    /\ pc = "ForwardDone"
    /\ epoch = 1
    /\ steps_in_epoch = 0
    /\ Len(printed) = 1
    /\ pre_step.valid
    /\ params # pre_step.params
    /\ output # Forward(pre_step.params, images)

(***************************************************************************)
(* C21: at every mini-batch boundary (position Idle) the gradient resets,  *)
(* forward passes, loss computations, backward passes and optimizer steps  *)
(* run so far by the training loop are equally many, namely the batches    *)
(* of the completed epochs plus the batches of the current epoch processed *)
(* so far; and when the loop has ended normally each of these numbers is   *)
(* epochs times len(trainloader).                                          *)
(***************************************************************************)
C21_CountsAgree ==
    /\ pc = "Idle" =>
           /\ counts.zero_grad = counts.forward
           /\ counts.forward = counts.loss
           /\ counts.loss = counts.backward
           /\ counts.backward = counts.step
           /\ counts.step = epoch * LenTrainloader + steps_in_epoch
    /\ pc = "Done" =>
           \A op \in {"zero_grad", "forward", "loss", "backward", "step"} :
               counts[op] = epochs * LenTrainloader

C21_Witness ==
    /\ pc = "Done"
    /\ counts.step = epochs * LenTrainloader
    /\ counts.zero_grad = counts.step
    /\ counts.step > epochs
    /\ Len(images) < batch_size
=============================================================================
